---- MODULE Spec2Model ----
(***************************************************************************)
(* A model of bandersnatch's Master (src/bandersnatch/master.py): its      *)
(* constructor and async scope, the serial guard of get, the XML-RPC       *)
(* gateway (rpc, all_packages, changed_packages), get_package_metadata     *)
(* and the streaming url_fetch.                                            *)
(*                                                                         *)
(* Four specifications share the variables; each moves one group of them   *)
(* and leaves the others at their idle values:                             *)
(*   Spec       the constructor and one `async with Master(...)` run       *)
(*   SpecGet    guarded fetches interleaved on one open session            *)
(*   SpecRpc    rpc / all_packages / changed_packages                      *)
(*   SpecFetch  url_fetch                                                  *)
(***************************************************************************)
EXTENDS Integers, Sequences, FiniteSets

VARIABLES
    pc,         \* position of the run in async_main's `async with` block
    args,       \* the arguments the constructor was called with
    master,     \* the attributes __init__ / __aenter__ set on self
    sessions,   \* every aiohttp.ClientSession created so far, in order
    calls,      \* the network calls made in the body, with the session used
    task,       \* per task: a guarded fetch (get / get_package_metadata)
    rpcs,       \* the rpc caller: all_packages or changed_packages
    remote,     \* the XML-RPC invocations the remote received, in order
    fetch,      \* url_fetch: position, response stream, chunks read
    disk        \* url_fetch: the destination's parent directory and file

masterVars == <<pc, args, master, sessions, calls>>
getVars    == <<task>>
rpcVars    == <<rpcs, remote>>
fetchVars  == <<fetch, disk>>
vars       == <<pc, args, master, sessions, calls, task, rpcs, remote, fetch, disk>>
\* what the actions of one group leave alone
notMaster == <<getVars, rpcVars, fetchVars>>
notGet    == <<masterVars, rpcVars, fetchVars>>
notRpc    == <<masterVars, getVars, fetchVars>>
notFetch  == <<masterVars, getVars, rpcVars>>

(***************************************************************************)
(* Python values.  An optional value is a sequence of length at most one:  *)
(* None is the empty one.                                                  *)
(***************************************************************************)
None == <<>>
Some(x) == <<x>>
IsNone(v) == v = None
Val(v) == v[1]
\* bool(v) of an `int | None` / `float | None`: None and zero are falsy.
Truthy(v) == ~IsNone(v) /\ Val(v) # 0

\* str.startswith
StartsWith(s, prefix) ==
    /\ Len(s) >= Len(prefix)
    /\ SubSeq(s, 1, Len(prefix)) = prefix

FIVE_HOURS_FLOAT == 18000

HttpPrefix  == <<"h", "t", "t", "p", ":", "/", "/">>
HttpsPrefix == <<"h", "t", "t", "p", "s", ":", "/", "/">>
Host == <<"p", "y", "p", "i">>
HttpUrl  == HttpPrefix \o Host
HttpsUrl == HttpsPrefix \o Host
FileUrl  == <<"f", "i", "l", "e", ":", "/", "/">> \o Host
Urls == {HttpUrl, HttpsUrl, FileUrl}

\* The values of global_timeout a configuration can give: unset, or a number.
MaxTimeout == 2
GlobalTimeouts == {None} \cup {Some(n) : n \in (0 - MaxTimeout)..MaxTimeout}
                         \cup {Some(FIVE_HOURS_FLOAT)}
Timeouts == {10}

MaxCalls == 3

NoMaster == [url |-> <<>>, timeout |-> 0, global_timeout |-> 0,
             allow_non_https |-> FALSE, session |-> 0]

MasterInit ==
    /\ pc = "start"
    /\ args = [url |-> <<>>, timeout |-> 0, global_timeout |-> None,
               allow_non_https |-> FALSE]
    /\ master = NoMaster
    /\ sessions = <<>>
    /\ calls = <<>>

\* __init__, line 47: self.global_timeout = global_timeout or FIVE_HOURS_FLOAT
GlobalTimeoutOrDefault(global_timeout) ==
    IF Truthy(global_timeout) THEN Val(global_timeout) ELSE FIVE_HOURS_FLOAT

\* NotHttpsScheme, were the prefix tested "http" without the "://"
NotHttpsSchemeNoColon(url, allow_non_https) ==
    StartsWith(url, <<"h", "t", "t", "p">>) /\ ~allow_non_https

\* __init__, line 58: the condition under which ValueError is raised
NotHttpsScheme(url, allow_non_https) ==
    StartsWith(url, HttpPrefix) /\ ~allow_non_https

\* Master.__init__: sets the attributes, then rejects an http:// URL.
Master_init(url, timeout, global_timeout, allow_non_https) ==
    /\ UNCHANGED notMaster
    /\ pc = "start"
    /\ args' = [url |-> url, timeout |-> timeout,
                global_timeout |-> global_timeout,
                allow_non_https |-> allow_non_https]
    /\ master' = [url |-> url, timeout |-> timeout,
                  global_timeout |-> GlobalTimeoutOrDefault(global_timeout),
                  allow_non_https |-> allow_non_https, session |-> 0]
    /\ pc' = IF NotHttpsScheme(url, allow_non_https)
             THEN "ValueError" ELSE "constructed"
    /\ UNCHANGED <<sessions, calls>>

Construct ==
    \E url \in Urls, timeout \in Timeouts, global_timeout \in GlobalTimeouts,
       allow_non_https \in BOOLEAN :
        Master_init(url, timeout, global_timeout, allow_non_https)

\* The aiohttp.ClientSession __aenter__ creates (lines 69-80).
NewSession(m) ==
    [owner |-> "Master", total |-> m.global_timeout,
     sock_connect |-> m.timeout, sock_read |-> m.timeout,
     raise_for_status |-> TRUE, open |-> TRUE, closes |-> 0]

\* Master.__aenter__
AEnter ==
    /\ UNCHANGED notMaster
    /\ pc = "constructed"
    /\ sessions' = Append(sessions, NewSession(master))
    /\ master' = [master EXCEPT !.session = Len(sessions) + 1]
    /\ pc' = "entered"
    /\ UNCHANGED <<args, calls>>

\* The session _gen_custom_headers' dummy ServerProxy creates for itself
\* (no client= is passed) and closes again before rpc goes on (lines 152-158).
DummySession ==
    [owner |-> "dummy_client", total |-> 0, sock_connect |-> 0, sock_read |-> 0,
     raise_for_status |-> FALSE, open |-> FALSE, closes |-> 1]

\* The session a network call of the body goes through: self.session
\* (lines 114, 137, 165).
SessionUsed(m) == m.session

\* A get or url_fetch made by the body; it completes or raises.
BodyCall(op, raises) ==
    /\ UNCHANGED notMaster
    /\ pc = "entered"
    /\ Len(calls) < MaxCalls
    /\ calls' = Append(calls, [op |-> op, session |-> SessionUsed(master)])
    /\ pc' = IF raises THEN "body_raised" ELSE "entered"
    /\ UNCHANGED <<args, master, sessions>>

CallGet == \E raises \in BOOLEAN : BodyCall("get", raises)

CallUrlFetch == \E raises \in BOOLEAN : BodyCall("url_fetch", raises)

\* An rpc made by the body: the dummy client's session is created and closed,
\* then the call goes through ServerProxy(client=self.session).
CallRpc ==
    /\ UNCHANGED notMaster
    /\ \E raises \in BOOLEAN :
           /\ pc = "entered"
           /\ Len(calls) < MaxCalls
           /\ sessions' = Append(sessions, DummySession)
           /\ calls' = Append(calls, [op |-> "rpc", session |-> SessionUsed(master)])
           /\ pc' = IF raises THEN "body_raised" ELSE "entered"
           /\ UNCHANGED <<args, master>>

\* The body of the `async with` returns (async_main, line 162).
BodyReturn ==
    /\ UNCHANGED notMaster
    /\ pc = "entered"
    /\ pc' = "body_done"
    /\ UNCHANGED <<args, master, sessions, calls>>

\* CloseSession, were __aexit__ to close nothing
CloseSessionNot(ss, i) == ss

\* session.close() as __aexit__ calls it on self.session (line 85)
CloseSession(ss, i) ==
    [ss EXCEPT ![i].open = FALSE, ![i].closes = @ + 1]

\* Master.__aexit__: runs when the body has returned and when it has raised.
AExit ==
    /\ UNCHANGED notMaster
    /\ pc \in {"body_done", "body_raised"}
    /\ sessions' = CloseSession(sessions, master.session)
    /\ pc' = IF pc = "body_done" THEN "exited" ELSE "exited_raised"
    /\ UNCHANGED <<args, master, calls>>

MasterNext ==
    \/ Construct
    \/ AEnter
    \/ CallGet
    \/ CallUrlFetch
    \/ CallRpc
    \/ BodyReturn
    \/ AExit

(***************************************************************************)
(* Guarded fetches: get and get_package_metadata, one per task, interleaved *)
(* at their awaits on the one session of an entered Master.                *)
(***************************************************************************)
Tasks == {"t1", "t2"}
PackageNames == {"pkg-a", "does-not-exist"}

MaxSerial == 2
\* required_serial: int | None
RequiredSerials == {None} \cup {Some(n) : n \in 0..MaxSerial}

\* Texts of the X-PYPI-LAST-SERIAL header a response can carry.
Digits == <<"0", "1", "2", "3", "4", "5", "6", "7", "8", "9">>
HeaderTexts == {<<"0">>, <<"1">>, <<"2">>, <<"3">>, <<"0", "1">>, <<"1", "0">>,
                <<"x">>}
\* r.headers: the serial header is absent, or present with a text
Headers == {None} \cup {Some(h) : h \in HeaderTexts}
Statuses == {200, 404, 500}

IsDigit(c) == \E i \in 1..Len(Digits) : Digits[i] = c
DigitVal(c) == (CHOOSE i \in 1..Len(Digits) : Digits[i] = c) - 1
IsDecimal(text) == Len(text) > 0 /\ \A i \in 1..Len(text) : IsDigit(text[i])

RECURSIVE IntOf(_)
\* int(text) of a decimal text
IntOf(text) ==
    IF Len(text) = 0 THEN 0
    ELSE 10 * IntOf(SubSeq(text, 1, Len(text) - 1)) + DigitVal(text[Len(text)])

\* Exceptions, as far as the code tells them apart.
Exc(type, status, arg) == [type |-> type, status |-> status, arg |-> arg]
StalePage(required_serial, got_serial) ==
    Exc("StalePage", 0, <<required_serial, got_serial>>)
ClientResponseError(status) == Exc("ClientResponseError", status, <<>>)
ClientConnectionError == Exc("ClientConnectionError", 0, <<>>)
ValueError == Exc("ValueError", 0, <<>>)
PackageNotFound(package_name) == Exc("PackageNotFound", 0, <<package_name>>)

IdleTask ==
    [pc |-> "idle", kind |-> "", package_name |-> "", required_serial |-> None,
     response |-> None, got_serial |-> None, guarded |-> FALSE,
     yielded |-> FALSE, raised |-> None, exc |-> None, result |-> ""]

GetInit == task = [t \in Tasks |-> IdleTask]

\* check_for_stale_cache, lines 96-101: the condition under which it raises
IsStale(required_serial, got_serial) ==
    /\ ~IsNone(required_serial)
    /\ (~Truthy(got_serial) \/ Val(got_serial) < Val(required_serial))

\* MetadataExcept, were the status not looked at
MetadataExceptAnyStatus(e, package_name) ==
    IF e.type = "ClientResponseError" THEN PackageNotFound(package_name) ELSE e

\* get_package_metadata, lines 205-208: what the except clause lets out
MetadataExcept(e, package_name) ==
    IF e.type = "ClientResponseError" /\ e.status = 404
    THEN PackageNotFound(package_name)
    ELSE e

\* What reaches the caller of task t's operation when e is raised in it.
Propagated(kind, e, package_name) ==
    IF kind = "get_package_metadata" THEN MetadataExcept(e, package_name) ELSE e

\* task t's operation ends with exception e raised inside it
Raise(t, e) ==
    [task[t] EXCEPT !.pc = "done", !.raised = Some(e),
                    !.exc = Some(Propagated(task[t].kind, e, task[t].package_name)),
                    !.result = "raised"]

\* A caller starts get(path, required_serial).
StartGet(t) ==
    /\ UNCHANGED notGet
    /\ \E required_serial \in RequiredSerials :
           /\ task[t].pc = "idle"
           /\ task' = [task EXCEPT ![t] =
                           [@ EXCEPT !.pc = "session_get", !.kind = "get",
                                     !.required_serial = required_serial]]

\* A caller starts get_package_metadata(package_name, serial), which starts
\* get("/pypi/<package_name>/json", serial) (line 201).
StartGetPackageMetadata(t) ==
    /\ UNCHANGED notGet
    /\ \E package_name \in PackageNames, serial \in RequiredSerials :
           /\ task[t].pc = "idle"
           /\ task' = [task EXCEPT ![t] =
                           [@ EXCEPT !.pc = "session_get",
                                     !.kind = "get_package_metadata",
                                     !.package_name = package_name,
                                     !.required_serial = serial]]

\* What entering self.session.get(path) gives for a response of this status:
\* the session was created with raise_for_status=True (line 78).
RaiseForStatus(status) ==
    IF status >= 400 THEN Some(ClientResponseError(status)) ELSE None

\* `async with self.session.get(path, **kw) as r` (line 114): the response
\* arrives, with its status and headers.
SessionGet(t) ==
    /\ UNCHANGED notGet
    /\ \E status \in Statuses, header \in Headers :
           /\ task[t].pc = "session_get"
           /\ task' = [task EXCEPT ![t] =
                   IF IsNone(RaiseForStatus(status))
                   THEN [@ EXCEPT !.pc = "opened",
                                  !.response = Some([status |-> status,
                                                     header |-> header])]
                   ELSE [Raise(t, Val(RaiseForStatus(status)))
                        EXCEPT !.response = Some([status |-> status,
                                                  header |-> header])]]

\* ... or the request fails below HTTP.
SessionGetFails(t) ==
    /\ UNCHANGED notGet
    /\ task[t].pc = "session_get"
    /\ task' = [task EXCEPT ![t] = Raise(t, ClientConnectionError)]

\* Lines 115-119: got_serial, when int() accepts the header's text.
GotSerial(header) ==
    IF IsNone(header) THEN None ELSE Some(IntOf(Val(header)))

\* Lines 115-121: read the serial, check it, yield the response.
Guard(t) ==
    /\ UNCHANGED notGet
    /\ LET header == Val(task[t].response).header
           required_serial == task[t].required_serial
       IN  /\ task[t].pc = "opened"
           /\ task' = [task EXCEPT ![t] =
               IF ~IsNone(header) /\ ~IsDecimal(Val(header))
               THEN Raise(t, ValueError)
               ELSE IF IsStale(required_serial, GotSerial(header))
               THEN [Raise(t, StalePage(required_serial, GotSerial(header)))
                       EXCEPT !.got_serial = GotSerial(header), !.guarded = TRUE]
               ELSE [@ EXCEPT !.pc = "yielded", !.got_serial = GotSerial(header),
                              !.guarded = TRUE, !.yielded = TRUE]]

\* The caller of get is done with the response it was given.
Consume(t) ==
    /\ UNCHANGED notGet
    /\ task[t].pc = "yielded"
    /\ task[t].kind = "get"
    /\ task' = [task EXCEPT ![t] = [@ EXCEPT !.pc = "done", !.result = "response"]]

\* Line 203: metadata_response.json() gives the document ...
Json(t) ==
    /\ UNCHANGED notGet
    /\ task[t].pc = "yielded"
    /\ task[t].kind = "get_package_metadata"
    /\ task' = [task EXCEPT ![t] = [@ EXCEPT !.pc = "done", !.result = "metadata"]]

\* ... or raises ContentTypeError, a ClientResponseError with the response's
\* status.
JsonFails(t) ==
    /\ UNCHANGED notGet
    /\ task[t].pc = "yielded"
    /\ task[t].kind = "get_package_metadata"
    /\ task' = [task EXCEPT ![t] =
                    Raise(t, ClientResponseError(Val(task[t].response).status))]

GetNext ==
    \E t \in Tasks :
        \/ StartGet(t)
        \/ StartGetPackageMetadata(t)
        \/ SessionGet(t)
        \/ SessionGetFails(t)
        \/ Guard(t)
        \/ Consume(t)
        \/ Json(t)
        \/ JsonFails(t)

(***************************************************************************)
(* The XML-RPC gateway: rpc, all_packages, changed_packages.               *)
(***************************************************************************)
RpcPackages == {"pkg-a", "pkg-b"}
MaxRows == 3
MaxRowSerial == 2
MaxLastSerial == 2

\* A changelog row: (package, version, time, action, serial)
Rows == {<<p, "1.0", 0, "new", s>> : p \in RpcPackages, s \in 0..MaxRowSerial}
Changelogs == UNION {[1..k -> Rows] : k \in 0..MaxRows}

\* dict[str, int]
EmptyDict == [p \in {} |-> 0]
Listings == UNION {[ps -> 0..MaxRowSerial] : ps \in SUBSET RpcPackages}

\* dict.get(key, default)
Get(d, key, default) == IF key \in DOMAIN d THEN d[key] ELSE default
\* d[key] = value
SetItem(d, key, value) ==
    [k \in DOMAIN d \cup {key} |-> IF k = key THEN value ELSE d[k]]
\* bool(x) of a dict or a list, either of them a function here
NonEmpty(x) == DOMAIN x # {}

XmlRpcError == Exc("XmlRpcError", 0, <<>>)
TimeoutError == Exc("TimeoutError", 0, <<>>)
Fault == Exc("Fault", 0, <<>>)

IdleRpc ==
    [pc |-> "idle", op |-> "", last_serial |-> 0, method_name |-> "", serial |-> 0,
     answer |-> [kind |-> "", value |-> <<>>], ret |-> None,
     exc |-> None, result |-> None]

RpcInit ==
    /\ rpcs = IdleRpc
    /\ remote = <<>>

\* all_packages, line 183: rpc("list_packages_with_serial"), serial left at its
\* default of 0.
AllPackages ==
    /\ UNCHANGED notRpc
    /\ rpcs.pc = "idle"
    /\ rpcs' = [rpcs EXCEPT !.pc = "rpc", !.op = "all_packages",
                            !.method_name = "list_packages_with_serial",
                            !.serial = 0]
    /\ UNCHANGED remote

\* changed_packages, line 189: rpc("changelog_since_serial", last_serial)
ChangedPackages ==
    /\ UNCHANGED notRpc
    /\ \E last_serial \in 0..MaxLastSerial :
           /\ rpcs.pc = "idle"
           /\ rpcs' = [rpcs EXCEPT !.pc = "rpc", !.op = "changed_packages",
                                   !.last_serial = last_serial,
                                   !.method_name = "changelog_since_serial",
                                   !.serial = last_serial]
           /\ UNCHANGED remote

\* rpc, lines 176-178: the arguments the remote method is invoked with
MethodArgs(serial) == IF serial # 0 THEN <<serial>> ELSE <<>>

\* rpc, lines 175-178: the invocation as the remote receives it
Invocation(method_name, serial) ==
    [method |-> method_name, args |-> MethodArgs(serial)]

\* What the remote can answer to a method.
Answers(method_name) ==
    IF method_name = "list_packages_with_serial" THEN Listings ELSE Changelogs

\* RpcExcept, were the except clause a bare one
RpcExceptAll(e) == None

\* rpc, lines 173-180: what rpc does with an exception of the invocation:
\* None when it is caught (rpc then returns None), the exception otherwise.
RpcExcept(e) == IF e.type = "TimeoutError" THEN None ELSE Some(e)

\* rpc: the remote answers with a value, which rpc returns.
RpcReturns ==
    /\ UNCHANGED notRpc
    /\ \E value \in Answers(rpcs.method_name) :
           /\ rpcs.pc = "rpc"
           /\ remote' = Append(remote, Invocation(rpcs.method_name, rpcs.serial))
           /\ rpcs' = [rpcs EXCEPT !.pc = "rpc_done",
                                   !.answer = [kind |-> "value", value |-> value],
                                   !.ret = Some(value)]

\* rpc: the remote answers with a null.
RpcReturnsNull ==
    /\ UNCHANGED notRpc
    /\ rpcs.pc = "rpc"
    /\ remote' = Append(remote, Invocation(rpcs.method_name, rpcs.serial))
    /\ rpcs' = [rpcs EXCEPT !.pc = "rpc_done",
                            !.answer = [kind |-> "null", value |-> <<>>],
                            !.ret = None]

\* rpc: the invocation ends with exception e.
RpcRaises(e) ==
    /\ UNCHANGED notRpc
    /\ rpcs.pc = "rpc"
    /\ remote' = Append(remote, Invocation(rpcs.method_name, rpcs.serial))
    /\ rpcs' = IF IsNone(RpcExcept(e))
               THEN [rpcs EXCEPT !.pc = "rpc_done",
                                 !.answer = [kind |-> e.type, value |-> <<>>],
                                 !.ret = None]
               ELSE [rpcs EXCEPT !.pc = "done",
                                 !.answer = [kind |-> e.type, value |-> <<>>],
                                 !.exc = RpcExcept(e)]

RpcTimesOut == RpcRaises(TimeoutError)

RpcFails == RpcRaises(Fault)

\* ListingUnavailable, were the test `is None`
ListingUnavailableIsNone(ret) == IsNone(ret)

\* all_packages, line 184: `not all_packages_with_serial`
ListingUnavailable(ret) == IsNone(ret) \/ ~NonEmpty(Val(ret))

\* all_packages, lines 184-186
AllPackagesFinish ==
    /\ UNCHANGED notRpc
    /\ rpcs.pc = "rpc_done"
    /\ rpcs.op = "all_packages"
    /\ rpcs' = IF ListingUnavailable(rpcs.ret)
               THEN [rpcs EXCEPT !.pc = "done", !.exc = Some(XmlRpcError)]
               ELSE [rpcs EXCEPT !.pc = "done", !.result = rpcs.ret]
    /\ UNCHANGED remote

\* changed_packages, lines 195-196: one row of the loop
FoldRow(packages, row) ==
    IF row[5] > Get(packages, row[1], 0)
    THEN SetItem(packages, row[1], row[5])
    ELSE packages

RECURSIVE FoldFrom(_, _, _)
\* changed_packages, lines 193-196: the loop from row i on
FoldFrom(packages, changelog, i) ==
    IF i > Len(changelog) THEN packages
    ELSE FoldFrom(FoldRow(packages, changelog[i]), changelog, i + 1)

\* changed_packages, lines 190-191
ChangelogOrEmpty(ret) == IF IsNone(ret) THEN <<>> ELSE Val(ret)

\* changed_packages, lines 190-197
ChangedPackagesFinish ==
    /\ UNCHANGED notRpc
    /\ rpcs.pc = "rpc_done"
    /\ rpcs.op = "changed_packages"
    /\ rpcs' = [rpcs EXCEPT !.pc = "done",
                   !.result = Some(FoldFrom(EmptyDict, ChangelogOrEmpty(rpcs.ret), 1))]
    /\ UNCHANGED remote

RpcNext ==
    \/ AllPackages
    \/ ChangedPackages
    \/ RpcReturns
    \/ RpcReturnsNull
    \/ RpcTimesOut
    \/ RpcFails
    \/ AllPackagesFinish
    \/ ChangedPackagesFinish

(***************************************************************************)
(* url_fetch: stream a response to a file in chunks.                       *)
(***************************************************************************)
Bytes == {"a", "b"}
MaxBody == 3
MaxChunkSize == 2
Bodies == UNION {[1..k -> Bytes] : k \in 0..MaxBody}
\* What the destination holds before the fetch, when it exists.
OldContent == <<"o", "l", "d">>

OSError == Exc("OSError", 0, <<>>)
ClientPayloadError == Exc("ClientPayloadError", 0, <<>>)

IdleFetch ==
    [pc |-> "idle", chunk_size |-> 0, body |-> <<>>, pos |-> 0, chunks |-> <<>>,
     events |-> <<>>, exc |-> None]

\* The destination before the fetch: the parent directory may be missing; the
\* file may exist already when the directory does.
FetchInit ==
    /\ fetch = IdleFetch
    /\ disk \in {[dir |-> FALSE, file |-> None], [dir |-> TRUE, file |-> None],
                 [dir |-> TRUE, file |-> Some(OldContent)]}

IdleDisk == [dir |-> FALSE, file |-> None]

\* A caller starts url_fetch(url, file_path, executor, chunk_size).
UrlFetch ==
    /\ UNCHANGED notFetch
    /\ \E chunk_size \in 1..MaxChunkSize :
           /\ fetch.pc = "idle"
           /\ fetch' = [fetch EXCEPT !.pc = "mkdir", !.chunk_size = chunk_size]
           /\ UNCHANGED disk

\* Lines 133-135: file_path.parent.mkdir(parents=True, exist_ok=True)
Mkdir ==
    /\ UNCHANGED notFetch
    /\ fetch.pc = "mkdir"
    /\ disk' = [disk EXCEPT !.dir = TRUE]
    /\ fetch' = [fetch EXCEPT !.pc = "get", !.events = Append(@, "mkdir")]

\* ... or the executor's call raises.
MkdirFails ==
    /\ UNCHANGED notFetch
    /\ fetch.pc = "mkdir"
    /\ fetch' = [fetch EXCEPT !.pc = "raised", !.exc = Some(OSError)]
    /\ UNCHANGED disk

\* Line 137: `async with self.session.get(url) as response`
OpenResponse ==
    /\ UNCHANGED notFetch
    /\ \E body \in Bodies :
           /\ fetch.pc = "get"
           /\ fetch' = [fetch EXCEPT !.pc = "open", !.body = body,
                                     !.events = Append(@, "get")]
           /\ UNCHANGED disk

\* ... or the request fails: an error status or a transport error.
OpenResponseFails ==
    /\ UNCHANGED notFetch
    /\ \E status \in {404, 500} :
           /\ fetch.pc = "get"
           /\ fetch' = [fetch EXCEPT !.pc = "raised",
                                     !.exc = Some(ClientResponseError(status))]
           /\ UNCHANGED disk

\* OpenWb, were the mode "ab": an existing file keeps its content
OpenAb(file) == IF IsNone(file) THEN Some(<<>>) ELSE file

\* What file_path.open("wb") leaves in the file: it is created or truncated.
OpenWb(file) == Some(<<>>)

\* Line 138: `with file_path.open("wb") as fd`
OpenFile ==
    /\ UNCHANGED notFetch
    /\ fetch.pc = "open"
    /\ disk' = [disk EXCEPT !.file = OpenWb(@)]
    /\ fetch' = [fetch EXCEPT !.pc = "read", !.events = Append(@, "open")]

\* ... or the file cannot be opened.
OpenFileFails ==
    /\ UNCHANGED notFetch
    /\ fetch.pc = "open"
    /\ fetch' = [fetch EXCEPT !.pc = "raised", !.exc = Some(OSError)]
    /\ UNCHANGED disk

Min(a, b) == IF a < b THEN a ELSE b

\* fd.write(chunk), line 143
Write(file, chunk) == Some(Val(file) \o chunk)

\* Lines 140-143: one turn of the loop.  read(chunk_size) gives between one
\* and chunk_size of the bytes left, and no byte only at the end of the
\* stream; a chunk that is not empty is written before the next await.
ReadChunk ==
    /\ UNCHANGED notFetch
    /\ LET left == Len(fetch.body) - fetch.pos
       IN  /\ fetch.pc = "read"
           /\ \E n \in 0..Min(fetch.chunk_size, left) :
               LET chunk == SubSeq(fetch.body, fetch.pos + 1, fetch.pos + n)
               IN  /\ (n = 0) <=> (left = 0)
                   /\ IF chunk = <<>>
                      THEN /\ fetch' = [fetch EXCEPT !.pc = "done"]
                           /\ UNCHANGED disk
                      ELSE /\ fetch' = [fetch EXCEPT !.pos = @ + n,
                                                     !.chunks = Append(@, chunk)]
                           /\ disk' = [disk EXCEPT !.file = Write(@, chunk)]

\* What url_fetch does to the file when a read raises: nothing (the `with`
\* closes it).
OnReadError(file) == file

\* Line 140: the read raises mid-stream.
ReadFails ==
    /\ UNCHANGED notFetch
    /\ fetch.pc = "read"
    /\ fetch' = [fetch EXCEPT !.pc = "raised", !.exc = Some(ClientPayloadError)]
    /\ disk' = [disk EXCEPT !.file = OnReadError(@)]

FetchNext ==
    \/ UrlFetch
    \/ Mkdir
    \/ MkdirFails
    \/ OpenResponse
    \/ OpenResponseFails
    \/ OpenFile
    \/ OpenFileFails
    \/ ReadChunk
    \/ ReadFails

(***************************************************************************)
(* The specifications.                                                     *)
(***************************************************************************)
Init == MasterInit /\ GetInit /\ RpcInit /\ fetch = IdleFetch /\ disk = IdleDisk
Next == MasterNext
Spec == Init /\ [][Next]_vars

InitGet == MasterInit /\ GetInit /\ RpcInit /\ fetch = IdleFetch /\ disk = IdleDisk
NextGet == GetNext
SpecGet == InitGet /\ [][NextGet]_vars

InitRpc == MasterInit /\ GetInit /\ RpcInit /\ fetch = IdleFetch /\ disk = IdleDisk
NextRpc == RpcNext
SpecRpc == InitRpc /\ [][NextRpc]_vars

InitFetch == MasterInit /\ GetInit /\ rpcs = IdleRpc /\ remote = <<>> /\ FetchInit
NextFetch == FetchNext
SpecFetch == InitFetch /\ [][NextFetch]_vars

(***************************************************************************)
(* Properties.                                                             *)
(***************************************************************************)

\* The serial O meets the requirement R: R is unset, or O is present and O >= R.
Fresh(R, O) == IsNone(R) \/ (~IsNone(O) /\ Val(O) >= Val(R))

\* C1: on a successfully opened response whose serial header (if any) is a
\* number, get yields the response iff the required serial is None or the
\* observed serial is present and >= the required one; in every other case it
\* raises StalePage and yields nothing.  For each task separately.
C1_YieldsIffFresh ==
    \A t \in Tasks :
        task[t].guarded =>
            /\ task[t].yielded <=> Fresh(task[t].required_serial, task[t].got_serial)
            /\ ~task[t].yielded =>
                    task[t].raised = Some(StalePage(task[t].required_serial,
                                                    task[t].got_serial))

\* The largest serial among the rows of the changelog that name package p.
MaxSerialOf(changelog, p) ==
    LET serials == {changelog[i][5] : i \in {j \in DOMAIN changelog : changelog[j][1] = p}}
    IN  CHOOSE s \in serials : \A other \in serials : other <= s

\* package -> max serial, over the set of rows, whatever their order
MaxSerialPerPackage(changelog) ==
    [p \in {changelog[i][1] : i \in DOMAIN changelog} |-> MaxSerialOf(changelog, p)]

\* C2: for every changelog the remote returns, changed_packages returns the
\* mapping whose keys are the packages named by at least one row and whose
\* values are the maximum serial over the package's rows (so the same mapping
\* for every permutation of the rows).
C2_FoldIsMaxPerPackage ==
    (rpcs.op = "changed_packages" /\ rpcs.pc = "done" /\ rpcs.answer.kind = "value")
        => rpcs.result = Some(MaxSerialPerPackage(rpcs.answer.value))

\* The remote gave all_packages / changed_packages nothing: an empty
\* collection, a null, or the call timed out.
NothingAnswered ==
    \/ rpcs.answer.kind \in {"null", "TimeoutError"}
    \/ rpcs.answer.kind = "value" /\ ~NonEmpty(rpcs.answer.value)

\* C3: all_packages never returns an empty mapping: when the remote gives an
\* empty collection or nothing (a timeout included) it raises XmlRpcError, and
\* it returns the remote's mapping, unchanged, only when that is non-empty.
C3_NeverEmptyListing ==
    (rpcs.op = "all_packages" /\ rpcs.pc = "done") =>
        /\ rpcs.result # Some(EmptyDict)
        /\ NothingAnswered => (rpcs.exc = Some(XmlRpcError) /\ IsNone(rpcs.result))
        /\ ~IsNone(rpcs.result) =>
                /\ rpcs.answer.kind = "value"
                /\ NonEmpty(rpcs.answer.value)
                /\ rpcs.result = Some(rpcs.answer.value)
        /\ (rpcs.answer.kind = "value" /\ NonEmpty(rpcs.answer.value)) =>
                (rpcs.result = Some(rpcs.answer.value) /\ IsNone(rpcs.exc))

C3_Witness ==
    /\ rpcs.op = "all_packages"
    /\ rpcs.pc = "done"
    /\ rpcs.answer.kind = "TimeoutError"
    /\ rpcs.exc = Some(XmlRpcError)

\* C4: when the remote returns no rows, a null, or times out, changed_packages
\* returns an empty mapping without raising (the timeout gives the caller the
\* same outcome as "nothing changed"); rpc catches only the timeout: any other
\* failure of the remote call reaches the caller.
C4_EmptyChangelogTolerated ==
    /\ (rpcs.op = "changed_packages" /\ rpcs.pc = "done" /\ NothingAnswered) =>
            (rpcs.result = Some(EmptyDict) /\ IsNone(rpcs.exc))
    /\ (rpcs.pc = "done" /\ rpcs.answer.kind = "Fault") =>
            (rpcs.exc = Some(Fault) /\ IsNone(rpcs.result))

C4_Witness ==
    /\ rpcs.op = "changed_packages"
    /\ rpcs.pc = "done"
    /\ rpcs.answer.kind = "TimeoutError"
    /\ rpcs.result = Some(EmptyDict)

\* C5: with an http:// URL the constructor raises ValueError when
\* allow_non_https is false, and no session is ever opened; with
\* allow_non_https true it succeeds; with an https:// URL it succeeds whatever
\* the flag.
C5_NonHttpsRejected ==
    pc # "start" =>
        /\ (StartsWith(args.url, HttpPrefix) /\ ~args.allow_non_https) =>
                (pc = "ValueError" /\ sessions = <<>>)
        /\ (StartsWith(args.url, HttpPrefix) /\ args.allow_non_https) =>
                pc # "ValueError"
        /\ StartsWith(args.url, HttpsPrefix) => pc # "ValueError"

C5_Witness ==
    /\ pc = "ValueError"
    /\ args.url = HttpUrl
    /\ ~args.allow_non_https

\* C6: get_package_metadata raises PackageNotFound(name) exactly when the
\* fetch failed with a ClientResponseError of status 404, whatever the
\* required serial and the response's serial header; every other failure
\* reaches the caller unchanged; metadata is returned only when the request
\* succeeded and the guard passed.
C6_NotFoundOnly404 ==
    \A t \in Tasks :
        (task[t].kind = "get_package_metadata" /\ task[t].pc = "done") =>
            /\ (task[t].exc = Some(PackageNotFound(task[t].package_name)))
                    <=> (task[t].raised = Some(ClientResponseError(404)))
            /\ (~IsNone(task[t].raised)
                    /\ task[t].raised # Some(ClientResponseError(404)))
                    => task[t].exc = task[t].raised
            /\ (task[t].result = "metadata") =>
                    /\ IsNone(task[t].raised) /\ IsNone(task[t].exc)
                    /\ Val(task[t].response).status < 400
                    /\ task[t].guarded /\ task[t].yielded
            /\ (task[t].result = "metadata") <=> IsNone(task[t].exc)

C6_Witness ==
    \E t \in Tasks :
        /\ task[t].pc = "done"
        /\ task[t].exc = Some(PackageNotFound("does-not-exist"))
        /\ task[t].required_serial = Some(0)
        /\ Val(task[t].response).header = Some(<<"3">>)

\* C7: changed_packages(last_serial) invokes the remote's
\* changelog_since_serial exactly once, with last_serial as its argument.
C7_InvokedOnceWithLastSerial ==
    (rpcs.op = "changed_packages" /\ rpcs.pc \in {"rpc_done", "done"}) =>
        remote = <<[method |-> "changelog_since_serial",
                    args |-> <<rpcs.last_serial>>]>>

\* C8: the session's ClientTimeout total is 5 hours when global_timeout is
\* None or <= 0, and the given value when it is positive.
C8_GlobalCeiling ==
    \A i \in 1..Len(sessions) :
        sessions[i].owner = "Master" =>
            sessions[i].total =
                IF IsNone(args.global_timeout) \/ Val(args.global_timeout) <= 0
                THEN FIVE_HOURS_FLOAT
                ELSE Val(args.global_timeout)

OpenedByMaster == {i \in 1..Len(sessions) : sessions[i].owner = "Master"}
StillOpen == {i \in 1..Len(sessions) : sessions[i].open}

\* C9: entering the scope opens exactly one session; leaving it, after the
\* body returned or raised, closes that session exactly once; after that no
\* session is open; every get, url_fetch and rpc of the body used that one
\* session.
C9_OneSessionPerScope ==
    /\ pc \in {"start", "constructed", "ValueError"} => sessions = <<>>
    /\ pc \in {"entered", "body_done", "body_raised"} =>
            /\ OpenedByMaster = {master.session}
            /\ sessions[master.session].open
            /\ sessions[master.session].closes = 0
    /\ pc \in {"exited", "exited_raised"} =>
            /\ OpenedByMaster = {master.session}
            /\ sessions[master.session].closes = 1
            /\ StillOpen = {}
    /\ \A k \in 1..Len(calls) : calls[k].session \in OpenedByMaster

C9_Witness ==
    /\ pc = "exited_raised"
    /\ \E k \in 1..Len(calls) : calls[k].op = "rpc"
    /\ \E k \in 1..Len(calls) : calls[k].op = "url_fetch"

RECURSIVE Concat(_)
\* the chunks, one after the other
Concat(chunks) ==
    IF chunks = <<>> THEN <<>> ELSE Head(chunks) \o Concat(Tail(chunks))

IsPrefix(a, b) == Len(a) <= Len(b) /\ SubSeq(b, 1, Len(a)) = a

\* C10: url_fetch ensures the directory, then opens the response, then opens
\* the file; from then on the file holds the concatenation of the non-empty
\* chunks read so far, a prefix of the body; the loop ends at the first empty
\* read, with the file equal to the body; a failed read propagates and leaves
\* the partial file in place.
C10_FileIsChunksRead ==
    /\ IsPrefix(fetch.events, <<"mkdir", "get", "open">>)
    /\ fetch.events # <<>> => disk.dir
    /\ Len(fetch.events) = 3 =>
            /\ disk.file = Some(Concat(fetch.chunks))
            /\ IsPrefix(Concat(fetch.chunks), fetch.body)
            /\ \A k \in 1..Len(fetch.chunks) :
                    Len(fetch.chunks[k]) \in 1..fetch.chunk_size
    /\ fetch.pc = "done" => (disk.file = Some(fetch.body) /\ IsNone(fetch.exc))
    /\ (fetch.pc = "raised" /\ Len(fetch.events) = 3) =>
            fetch.exc = Some(ClientPayloadError)

C10_Witness ==
    /\ fetch.pc = "raised"
    /\ fetch.exc = Some(ClientPayloadError)
    /\ Len(fetch.chunks) = 2
    /\ disk.file = Some(Concat(fetch.chunks))
    /\ Concat(fetch.chunks) # fetch.body

====
